---- MODULE Spec2Model ----
(***************************************************************************)
(* Model of testkit/unittests.py of the neo4j JavaScript driver: the       *)
(* script picks an --ignore argument from is_lite() / is_deno(), runs      *)
(* "npm run lint" and then "npm run test::unit -- <ignore>" through        *)
(* run_in_driver_repo.                                                     *)
(***************************************************************************)
EXTENDS Integers, Sequences, FiniteSets, TLC

VARIABLES
    isLite,     \* what is_lite() returns in this environment
    isDeno,     \* what is_deno() returns in this environment
    pc,         \* position of the script
    evaluated,  \* the predicates called so far, in call order
    ignore,     \* the local variable `ignore`
    spawned,    \* child processes started so far: [args, cwd], in order
    exits,      \* exit statuses of the children that have completed, in order
    exitCode    \* exit status of the script itself, NoExit while it runs

vars == <<isLite, isDeno, pc, evaluated, ignore, spawned, exits, exitCode>>

\* Largest child exit status the model draws (statuses are 0..MaxExit).
MaxExit == 15

ExitCodes == 0..MaxExit

\* `ignore` before line 11 / 13 has bound it.
Unset == "<unset>"

\* exitCode while the interpreter is still running.
NoExit == -1

\* The working directory run_in_driver_repo runs its command in.
DriverRepo == "<driver repo>"

\* Line 11: the literal assigned when is_lite() or is_deno() is true.
IgnoreThen == "--ignore=neo4j-driver"

\* IgnoreElse with the package name misspelt.
IgnoreElse_Typo == "--ignore=neo4j-driver-light"

\* Line 13: the literal assigned otherwise.
IgnoreElse == "--ignore=neo4j-driver-lite"

\* Line 15: the argument list of the lint command.
LintArgs == <<"npm", "run", "lint">>

\* TestArgs without the "--" that hands the argument on to the test runner.
TestArgs_NoSeparator(ig) == <<"npm", "run", "test::unit", ig>>

\* Line 16: the argument list of the unit-test command.
TestArgs(ig) == <<"npm", "run", "test::unit", "--", ig>>

Init ==
    /\ isLite \in BOOLEAN
    /\ isDeno \in BOOLEAN
    /\ pc = "if"
    /\ evaluated = <<>>
    /\ ignore = Unset
    /\ spawned = <<>>
    /\ exits = <<>>
    /\ exitCode = NoExit

\* run_in_driver_repo(args), first half: the child is started in the driver
\* repository and the script blocks on it.
Spawn(args, waiting) ==
    /\ spawned' = Append(spawned, [args |-> args, cwd |-> DriverRepo])
    /\ pc' = waiting
    /\ UNCHANGED <<isLite, isDeno, evaluated, ignore, exits, exitCode>>

\* run_in_driver_repo(args), second half: the child exits with status c; a
\* non-zero status ends the script with that status, zero returns to the caller.
Wait(c, next) ==
    /\ exits' = Append(exits, c)
    /\ IF c # 0
          THEN pc' = "done" /\ exitCode' = c
          ELSE pc' = next /\ exitCode' = exitCode
    /\ UNCHANGED <<isLite, isDeno, evaluated, ignore, spawned>>

\* EvalLite as if the operands were joined by `|`: is_deno() is always called.
EvalLite_NoShortCircuit ==
    /\ pc = "if"
    /\ evaluated' = Append(evaluated, "is_lite")
    /\ pc' = "or"
    /\ UNCHANGED <<isLite, isDeno, ignore, spawned, exits, exitCode>>

\* Line 10, left operand of `or`: is_lite() is called; a true result decides
\* the condition and is_deno() is skipped.
EvalLite ==
    /\ pc = "if"
    /\ evaluated' = Append(evaluated, "is_lite")
    /\ pc' = IF isLite THEN "then" ELSE "or"
    /\ UNCHANGED <<isLite, isDeno, ignore, spawned, exits, exitCode>>

\* Line 10, right operand of `or`: reached only when is_lite() was false.
EvalDeno ==
    /\ pc = "or"
    /\ evaluated' = Append(evaluated, "is_deno")
    /\ pc' = IF isDeno THEN "then" ELSE "else"
    /\ UNCHANGED <<isLite, isDeno, ignore, spawned, exits, exitCode>>

\* AssignThen with the literal of the other branch.
AssignThen_Swapped ==
    /\ pc = "then"
    /\ ignore' = IgnoreElse
    /\ pc' = "lint"
    /\ UNCHANGED <<isLite, isDeno, evaluated, spawned, exits, exitCode>>

\* Line 11.
AssignThen ==
    /\ pc = "then"
    /\ ignore' = IgnoreThen
    /\ pc' = "lint"
    /\ UNCHANGED <<isLite, isDeno, evaluated, spawned, exits, exitCode>>

\* Line 13.
AssignElse ==
    /\ pc = "else"
    /\ ignore' = IgnoreElse
    /\ pc' = "lint"
    /\ UNCHANGED <<isLite, isDeno, evaluated, spawned, exits, exitCode>>

\* LintStart with lines 15 and 16 in the other order: the unit tests go first.
LintStart_TestFirst ==
    /\ pc = "lint"
    /\ Spawn(TestArgs(ignore), "lintRunning")

\* Line 15: the lint command is started.
LintStart ==
    /\ pc = "lint"
    /\ Spawn(LintArgs, "lintRunning")

\* LintExit with the exit status of the lint command not checked.
LintExit_Unchecked ==
    /\ pc = "lintRunning"
    /\ \E c \in ExitCodes :
          /\ exits' = Append(exits, c)
          /\ pc' = "test"
          /\ UNCHANGED <<isLite, isDeno, evaluated, ignore, spawned, exitCode>>

\* LintExit with a failed lint run again.
LintExit_Retry ==
    /\ pc = "lintRunning"
    /\ \E c \in ExitCodes :
          /\ exits' = Append(exits, c)
          /\ pc' = IF c # 0 THEN "lint" ELSE "test"
          /\ UNCHANGED <<isLite, isDeno, evaluated, ignore, spawned, exitCode>>

\* LintExit with line 16 missing: a clean lint ends the script.
LintExit_SkipsTest ==
    /\ pc = "lintRunning"
    /\ \E c \in ExitCodes : Wait(c, "end")

\* LintExit where the script never gets past a failed lint (it blocks for good).
LintExit_Hangs ==
    /\ pc = "lintRunning"
    /\ \E c \in ExitCodes :
          /\ exits' = Append(exits, c)
          /\ pc' = IF c # 0 THEN "blocked" ELSE "test"
          /\ UNCHANGED <<isLite, isDeno, evaluated, ignore, spawned, exitCode>>

\* Line 15: the lint command exits.
LintExit ==
    /\ pc = "lintRunning"
    /\ \E c \in ExitCodes : Wait(c, "test")

\* Line 16: the unit-test command is started with the chosen argument.
TestStart ==
    /\ pc = "test"
    /\ Spawn(TestArgs(ignore), "testRunning")

\* TestExit with the exit status of the unit-test command not checked.
TestExit_Unchecked ==
    /\ pc = "testRunning"
    /\ \E c \in ExitCodes :
          /\ exits' = Append(exits, c)
          /\ pc' = "end"
          /\ UNCHANGED <<isLite, isDeno, evaluated, ignore, spawned, exitCode>>

\* Line 16: the unit-test command exits.
TestExit ==
    /\ pc = "testRunning"
    /\ \E c \in ExitCodes : Wait(c, "end")

\* End of the module body: the interpreter exits with status 0.
Finish ==
    /\ pc = "end"
    /\ pc' = "done"
    /\ exitCode' = 0
    /\ UNCHANGED <<isLite, isDeno, evaluated, ignore, spawned, exits>>

Next ==
    \/ EvalLite
    \/ EvalDeno
    \/ AssignThen
    \/ AssignElse
    \/ LintStart
    \/ LintExit
    \/ TestStart
    \/ TestExit
    \/ Finish

Spec == Init /\ [][Next]_vars

\* The interpreter runs the script to its end, and each started child exits.
FairSpec == Spec /\ WF_vars(Next)

TypeOK ==
    /\ isLite \in BOOLEAN
    /\ isDeno \in BOOLEAN
    /\ pc \in {"if", "or", "then", "else", "lint", "lintRunning", "test",
               "testRunning", "end", "done"}
    /\ ignore \in {Unset, IgnoreThen, IgnoreElse}
    /\ Len(spawned) <= 2
    /\ Len(exits) <= Len(spawned)
    /\ exitCode \in ExitCodes \cup {NoExit}

----------------------------------------------------------------------------
(* Properties *)

\* True once line 11 or line 13 has bound `ignore`.
Chosen == ignore # Unset

\* C1 (as stated): once the branch has run, the argument names the lite
\* package neo4j-driver-lite when is_lite() or is_deno() is true, and the
\* full package neo4j-driver when both are false.
C1_Original ==
    Chosen =>
        ignore = IF isLite \/ isDeno
                    THEN "--ignore=neo4j-driver-lite"
                    ELSE "--ignore=neo4j-driver"

\* C1 (amended): once the branch has run, the argument names the full package
\* neo4j-driver when is_lite() or is_deno() is true, and the lite package
\* neo4j-driver-lite when both are false.
C1_Amended ==
    Chosen =>
        ignore = IF isLite \/ isDeno
                    THEN "--ignore=neo4j-driver"
                    ELSE "--ignore=neo4j-driver-lite"

C1_Witness ==
    /\ Chosen
    /\ ~isLite
    /\ isDeno
    /\ ignore = "--ignore=neo4j-driver"

\* C2: when the lint command exits non-zero, the unit-test command is never
\* started, and the script ends with the lint command's exit status.
C2_LintFailureIsFatal ==
    (Len(exits) >= 1 /\ exits[1] # 0) =>
        /\ Len(spawned) = 1
        /\ pc = "done"
        /\ exitCode = exits[1]

C2_Witness ==
    /\ Len(exits) = 1
    /\ exits[1] = MaxExit
    /\ exitCode = MaxExit

\* C3 (as stated): the first command started is lint, a second command is
\* started only after the first has completed, and with both predicates false
\* the second command is the unit tests with the argument that excludes the
\* full package.
C3_Original ==
    /\ Len(spawned) >= 1 => spawned[1].args = <<"npm", "run", "lint">>
    /\ Len(spawned) >= 2 => Len(exits) >= 1
    /\ (~isLite /\ ~isDeno /\ Len(spawned) >= 2) =>
           /\ Len(spawned) = 2
           /\ spawned[2].args =
                  <<"npm", "run", "test::unit", "--", "--ignore=neo4j-driver">>

\* C3 (amended): the first command started is lint, a second command is
\* started only after the first has completed, and with both predicates false
\* the second command is the unit tests with the argument that excludes the
\* lite package, --ignore=neo4j-driver-lite.
C3_Amended ==
    /\ Len(spawned) >= 1 => spawned[1].args = <<"npm", "run", "lint">>
    /\ Len(spawned) >= 2 => Len(exits) >= 1
    /\ (~isLite /\ ~isDeno /\ Len(spawned) >= 2) =>
           /\ Len(spawned) = 2
           /\ spawned[2].args =
                  <<"npm", "run", "test::unit", "--", "--ignore=neo4j-driver-lite">>

C3_Witness ==
    /\ ~isLite
    /\ ~isDeno
    /\ Len(spawned) = 2
    /\ Len(exits) = 1

\* C4: when the lint command exits zero and the unit-test command exits
\* non-zero, the script ends with the unit-test command's exit status.
C4_TestFailurePropagates ==
    (Len(exits) = 2 /\ exits[1] = 0 /\ exits[2] # 0) =>
        /\ pc = "done"
        /\ exitCode = exits[2]

C4_Witness ==
    /\ Len(exits) = 2
    /\ exits[1] = 0
    /\ exits[2] = 1
    /\ exitCode = 1

\* C5: when both commands have exited zero the script ends with status zero,
\* and the script has status zero only when both commands were run and both
\* exited zero.
C5_ZeroIffBothZero ==
    /\ (pc = "done" /\ exits = <<0, 0>>) => exitCode = 0
    /\ exitCode = 0 => (Len(spawned) = 2 /\ exits = <<0, 0>>)

C5_Witness ==
    /\ pc = "done"
    /\ exitCode = 0
    /\ exits = <<0, 0>>

\* C6: from the end of the branch on, and so whenever a command is started,
\* `ignore` is one of the two strings --ignore=neo4j-driver and
\* --ignore=neo4j-driver-lite, whatever the predicates are.
C6_IgnoreIsOneOfTwo ==
    (pc \notin {"if", "or", "then", "else"} \/ Len(spawned) >= 1) =>
        ignore \in {"--ignore=neo4j-driver", "--ignore=neo4j-driver-lite"}

C6_Witness ==
    /\ Len(spawned) >= 1
    /\ ignore = "--ignore=neo4j-driver-lite"

\* C7: the unit-test command gets exactly one argument after "--", the value
\* of `ignore`; the lint command's arguments do not depend on the predicates;
\* both commands run in the same working directory.
C7_Arguments ==
    /\ Len(spawned) >= 1 => spawned[1].args = <<"npm", "run", "lint">>
    /\ Len(spawned) >= 2 =>
           /\ SubSeq(spawned[2].args, 1, 4) = <<"npm", "run", "test::unit", "--">>
           /\ SubSeq(spawned[2].args, 5, Len(spawned[2].args)) = <<ignore>>
           /\ spawned[2].cwd = spawned[1].cwd

C7_Witness ==
    /\ Len(spawned) = 2
    /\ isLite
    /\ spawned[2].args[5] = ignore

\* C8 (as stated): when `ignore` is computed, both is_lite() and is_deno()
\* have been called, also when is_lite() is true.
C8_Original ==
    Chosen => evaluated = <<"is_lite", "is_deno">>

\* C8 (amended): when `ignore` is computed, is_lite() has been called, and
\* is_deno() has been called after it exactly when is_lite() returned false.
C8_Amended ==
    Chosen =>
        evaluated = IF isLite THEN <<"is_lite">> ELSE <<"is_lite", "is_deno">>

C8_Witness ==
    /\ Chosen
    /\ isLite
    /\ isDeno
    /\ evaluated = <<"is_lite">>

\* C9: each of the two commands is started at most once, at most two children
\* are started, and once a child has exited non-zero no other child is
\* started.
C9_NoRetry ==
    /\ Len(spawned) <= 2
    /\ \A i, j \in DOMAIN spawned : spawned[i].args = spawned[j].args => i = j
    /\ \A i \in DOMAIN exits : exits[i] # 0 => Len(spawned) = i

C9_Witness ==
    /\ Len(spawned) = 2
    /\ exits[1] = 0
    /\ Len(exits) = 2
    /\ exits[2] = MaxExit
    /\ pc = "done"

\* C10: given that each started command exits, the script eventually ends
\* with an exit status, for every value of the predicates and of the child
\* statuses; and the lint step leaves `ignore` as the branch set it.
C10_Terminates ==
    /\ <>(pc = "done" /\ exitCode \in ExitCodes)
    /\ [][(pc \in {"lint", "lintRunning"}) => (ignore' = ignore)]_vars

C10_Witness ==
    /\ pc = "done"
    /\ exitCode \in ExitCodes
    /\ Len(exits) >= 1
    /\ Chosen

====
